---- MODULE Spec2Model ----
(***************************************************************************)
(* Task logic of PandaStackCubesGymEnv (gym_hil/envs/panda_stack_gym_env). *)
(*                                                                         *)
(* Units.  Lengths are integers in centimetres (0.01 m): 0.030 m is 3,     *)
(* the sampling rectangle [0.3,0.5]x[-0.15,0.15] is [30,50]x[-15,15].      *)
(* Finger joint positions are in hundredths (0.1 is 10).  Rewards are in   *)
(* thousandths: 1.0 is 1000, 0.3 is 300, 1.7 is 1700.                      *)
(*                                                                         *)
(* The physics backend, the robot controller and the scene file are not    *)
(* part of the sources.  Their effect is a nondeterministic choice:        *)
(* apply_action leaves the finger joint at any value of FingerVals and     *)
(* displaces at most one block to any position of its range; mj_resetData  *)
(* and reset_robot leave every block at its home position, at equal or at  *)
(* pairwise different heights.  sensor is what the position sensors        *)
(* report; qpos is the joint position reset writes, which the sensors do   *)
(* not reflect before the next physics step (reset calls no mj_forward     *)
(* after placing).                                                         *)
(***************************************************************************)
EXTENDS Integers, Sequences, FiniteSets

\* ------------------------------------------------------------ bounds
\* pure functions are evaluated on up to MaxProbeBlocks objects
MaxProbeBlocks == 3
\* and for half-heights 1 .. MaxHalfHeight
MaxHalfHeight == 3
\* reset is called with seeds 0 .. MaxSeed
MaxSeed == 1
\* the stream of the process-wide generator is followed over RngPeriod positions
RngPeriod == 4
\* largest num_blocks a caller passes to the constructor
MaxBlocks == 5
\* the tracker's return/transition balance is kept within -MaxSkew..MaxSkew
MaxSkew == 2

\* ------------------------------------------------- program constants
\* blocks the scene defines: block1 .. block3 (the default num_blocks)
NamedBlocks == 3
\* self._block_z, the half-height h of a block (0.02 m)
BlockZ == 2
\* _SAMPLING_BOUNDS
SamplingMinX == 30
SamplingMinY == -15
SamplingMaxX == 50
SamplingMaxY == 15
\* margin added to the sampling bounds in step (0.05 m)
BoundsMargin == 5
\* thresholds of the stacking test (0.030 m, 0.03 m, 0.05 m)
XyEps == 3
ZMin == 3
ZTol == 5
\* _is_gripper_closed: joint position > 0.1
GripperThreshold == 10

Blocks == 1..NamedBlocks
RewardTypes == {"sparse", "dense", "bogus"}

Pos(x, y, z) == [x |-> x, y |-> y, z |-> z]

\* ------------------------------------------------ external physics
\* finger joint readings: open, exactly on the threshold, closed
FingerVals == {0, 10, 80}
\* canonical planar position of each block in the scene
HomeXY(b) == <<50, -10 + 10 * (b - 1)>>
\* positions the reference block can be displaced to: home, on top of block2's
\* home, and on and beyond the extended bounds
RefPos ==
    { Pos(50, -10, 2), Pos(50, 0, 6),
      Pos(55, 0, 2), Pos(56, 0, 2), Pos(25, 0, 2), Pos(24, 0, 2),
      Pos(50, 21, 2), Pos(50, -21, 2) }
\* positions the other blocks can be displaced to: block2 home, on top of
\* block1's home, out of the extended bounds; block3 on top of block2's home
MovePos(b) ==
    IF b = 1 THEN RefPos
    ELSE IF b = 2 THEN { Pos(50, 0, 2), Pos(50, -10, 6), Pos(56, 0, 2) }
    ELSE { Pos(50, 10, 2), Pos(50, 0, 6) }
\* snapshots after mj_resetData and reset_robot: every block at its home, all
\* resting at height BlockZ, or each block one higher than the block before it,
\* or each block one lower than the block before it
RestProfiles ==
    { [b \in Blocks |-> BlockZ],
      [b \in Blocks |-> BlockZ + (b - 1)],
      [b \in Blocks |-> BlockZ + (NamedBlocks - b)] }
ResetSnaps ==
    { [b \in Blocks |-> Pos(HomeXY(b)[1], HomeXY(b)[2], h[b])] : h \in RestProfiles }
\* points np.random.uniform(*_SAMPLING_BOUNDS) can return
SampleXY == { <<SamplingMinX, SamplingMinY>>, <<40, 0>> }

VARIABLES
    constructed,            \* an instance exists
    reward_type,            \* self.reward_type
    num_blocks,             \* self.num_blocks
    random_block_position,  \* self._random_block_position
    qpos,                   \* self._data.joint(name).qpos[:3], per block
    sensor,                 \* self._data.sensor(name_pos).data, per block
    finger,                 \* self._data.joint("left_driver_joint").qpos[0]
    z_inits,                \* self._z_inits; <<>> while the attribute is missing
    has_prev,               \* hasattr(self, '_prev_gripper_closed')
    prev_gripper_closed,    \* self._prev_gripper_closed
    ret,                    \* what the last call returned
    fedPrev,                \* gripper state the tracker saw one call earlier in this episode
    fedCur,                 \* gripper state the tracker saw at its last call
    skew,                   \* true returns minus closed->open transitions, this episode
    np_random,              \* seed of self.np_random, the generator reset(seed) seeds; -1 unseeded
    global_rng,             \* state of numpy's global generator, the one np.random.uniform draws from
    placed_by_seed,         \* history: where the first reset(seed) placed the objects, per seed
    hist,                   \* history of the episode, kept by the instrumented specification
    probe                   \* a pure function's inputs and result

aux == << np_random, global_rng, placed_by_seed, hist, probe >>

vars == << constructed, reward_type, num_blocks, random_block_position, qpos, sensor,
           finger, z_inits, has_prev, prev_gripper_closed, ret, fedPrev, fedCur, skew,
           np_random, global_rng, placed_by_seed, hist, probe >>

NoRet == [op |-> "none", raised |-> FALSE, rew |-> 0, terminated |-> FALSE,
          truncated |-> FALSE, succeed |-> FALSE, jr_calls |-> 0, released |-> FALSE]

\* ------------------------------------------------------ pure helpers
Min(a, b) == IF a < b THEN a ELSE b
Max(a, b) == IF a > b THEN a ELSE b
Abs(a) == IF a < 0 THEN -a ELSE a
Clamp(v, lo, hi) == Min(Max(v, lo), hi)

\* name of the block reset addresses in iteration i: "block{i}", "block1" for i = 0
ResetName(i) == IF i > 0 THEN i ELSE 1
\* name of the block the reward and the success check read as object i: "block{i+1}"
SensorName(i) == i + 1

\* _is_gripper_closed
IsGripperClosed(f) == f > GripperThreshold

\* the pair test without the minimum vertical separation
PairStackedHNoMin(upper, lower, h) ==
    LET dx == upper.x - lower.x
        dy == upper.y - lower.y
        z_diff == upper.z - lower.z
    IN  /\ dx * dx + dy * dy < XyEps * XyEps
        /\ Abs(z_diff - h * 2) < ZTol

\* the pair test of _is_success, upper over lower, for half-height h = self._block_z
PairStackedH(upper, lower, h) ==
    LET dx == upper.x - lower.x
        dy == upper.y - lower.y
        z_diff == upper.z - lower.z
    IN  /\ dx * dx + dy * dy < XyEps * XyEps
        /\ z_diff > ZMin
        /\ Abs(z_diff - h * 2) < ZTol

\* the pairs enumerated once each, the lower index as the upper object
IsSuccessHUpperFirst(s, n, h) ==
    \E i \in 0..(n - 1) : \E j \in (i + 1)..(n - 1) :
        PairStackedH(s[SensorName(i)], s[SensorName(j)], h)

\* _is_success over the sensors of block1 .. block{n}, for half-height h
IsSuccessH(s, n, h) ==
    \E i \in 0..(n - 1) : \E j \in 0..(n - 1) :
        /\ i # j
        /\ PairStackedH(s[SensorName(i)], s[SensorName(j)], h)

\* the pair test with the scene's half-height
PairStacked(upper, lower) == PairStackedH(upper, lower, BlockZ)

\* _is_success over the sensors of block1 .. block{n}; needs n <= NamedBlocks
IsSuccess(s, n) == IsSuccessH(s, n, BlockZ)

\* exceeded_bounds with the comparisons made inclusive
ExceededBoundsInclusive(p) ==
    \/ p.x <= SamplingMinX - BoundsMargin
    \/ p.y <= SamplingMinY - BoundsMargin
    \/ p.x >= SamplingMaxX + BoundsMargin
    \/ p.y >= SamplingMaxY + BoundsMargin

\* exceeded_bounds of step, on the sensor of block1
ExceededBounds(p) ==
    \/ p.x < SamplingMinX - BoundsMargin
    \/ p.y < SamplingMinY - BoundsMargin
    \/ p.x > SamplingMaxX + BoundsMargin
    \/ p.y > SamplingMaxY + BoundsMargin

\* numerator, over 2 * BlockZ, of np.clip(lift, 0.0, 1.0) for object i
LiftNum(s, zi, i) == Clamp(s[SensorName(i)].z - zi[i + 1], 0, 2 * BlockZ)

\* the lifts of the objects added up instead of the largest kept
RECURSIVE MaxLiftNumSum(_, _, _)
MaxLiftNumSum(s, zi, n) ==
    IF n = 0 THEN 0 ELSE MaxLiftNumSum(s, zi, n - 1) + LiftNum(s, zi, n - 1)

\* max_lift_reward of _compute_reward as a numerator over 2 * BlockZ
RECURSIVE MaxLiftNum(_, _, _)
MaxLiftNum(s, zi, n) ==
    IF n = 0 THEN 0 ELSE Max(MaxLiftNum(s, zi, n - 1), LiftNum(s, zi, n - 1))

\* stack_reward with the elif branch left out
StackHalvesNoHeld(released, stacked) == IF released /\ stacked THEN 4 ELSE 0

\* stack_reward of the dense branch, in halves: 4 is 2.0, 1 is 0.5
StackHalves(released, stacked) ==
    IF released /\ stacked THEN 4
    ELSE IF stacked THEN 1
    ELSE 0

\* 0.3 * max_lift_reward + 0.7 * stack_reward, in thousandths
DenseReward(liftNum, stackHalves) ==
    (300 * liftNum) \div (2 * BlockZ) + 350 * stackHalves

\* the sparse branch paying for a stack without asking for a release
SparseRewardNoRelease(released, stacked) == IF stacked THEN 1000 ELSE 0

\* the sparse branch of _compute_reward, in thousandths
SparseReward(released, stacked) == IF released /\ stacked THEN 1000 ELSE 0

\* the tracker storing the current state before comparing (update-then-read)
JustReleasedUpdateFirst(hasPrev, prevClosed, curClosed) ==
    IF ~hasPrev THEN FALSE ELSE curClosed /\ ~curClosed

\* value _was_block_just_released returns
JustReleased(hasPrev, prevClosed, curClosed) ==
    IF ~hasPrev THEN FALSE ELSE prevClosed /\ ~curClosed

\* step without the sparse override of success
StepSuccessRaw(rt, rew, raw) == raw

\* the sparse override of success applied in every mode
StepSuccessOnRelease(rt, rew, raw) == rew = 1000

\* success as step settles it after the reward
StepSuccess(rt, rew, raw) == IF rt = "sparse" THEN rew = 1000 ELSE raw

FedName(closed) == IF closed THEN "closed" ELSE "open"

\* the tracker as the right operand of the and: skipped when nothing is stacked
JrCallsAfterSuccess(rt, stacked) == IF stacked THEN 1 ELSE 0

\* evaluations of _was_block_just_released in one _compute_reward: it is the left
\* operand of the and, in the dense if and in the sparse if alike
JrCalls(rt, stacked) == 1

\* reset leaving the tracker as the last episode left it
ResetPrevKept(old) == old

\* self._prev_gripper_closed after reset
ResetPrev(old) == FALSE

\* leaving the workspace reported as a truncation
StepResultTruncates(rew, success, exceeded, calls, rel) ==
    [op |-> "step", raised |-> FALSE, rew |-> rew,
     terminated |-> success, truncated |-> exceeded, succeed |-> success,
     jr_calls |-> calls, released |-> rel]

\* termination decided by the bounds alone
StepResultBoundsOnly(rew, success, exceeded, calls, rel) ==
    [op |-> "step", raised |-> FALSE, rew |-> rew,
     terminated |-> exceeded, truncated |-> FALSE, succeed |-> success,
     jr_calls |-> calls, released |-> rel]

\* the 5-tuple step returns
StepResult(rew, success, exceeded, calls, rel) ==
    [op |-> "step", raised |-> FALSE, rew |-> rew,
     terminated |-> (success \/ exceeded), truncated |-> FALSE, succeed |-> success,
     jr_calls |-> calls, released |-> rel]

NoHist == [carry |-> "none", heldSeen |-> FALSE, bonusAfterHeld |-> FALSE, over |-> FALSE]
NoProbe == [fn |-> "none"]
Seeds == 0..MaxSeed
NoPlacement == << >>

\* ---------------------------------------------------------- actions
Init ==
    /\ constructed = FALSE
    /\ reward_type = "sparse"
    /\ num_blocks = 1
    /\ random_block_position = TRUE
    /\ qpos = [b \in Blocks |-> Pos(HomeXY(b)[1], HomeXY(b)[2], BlockZ)]
    /\ sensor = [b \in Blocks |-> Pos(HomeXY(b)[1], HomeXY(b)[2], BlockZ)]
    /\ finger = 0
    /\ z_inits = << >>
    /\ has_prev = FALSE
    /\ prev_gripper_closed = FALSE
    /\ ret = NoRet
    /\ fedPrev = "none"
    /\ fedCur = "none"
    /\ skew = 0
    /\ np_random = -1
    /\ global_rng = 0
    /\ placed_by_seed = [sd \in Seeds |-> NoPlacement]
    /\ hist = NoHist
    /\ probe = NoProbe

\* __init__: stores the configuration; nothing in it inspects reward_type or num_blocks
Construct(rt, n, rnd) ==
    /\ ~constructed
    /\ constructed' = TRUE
    /\ reward_type' = rt
    /\ num_blocks' = n
    /\ random_block_position' = rnd
    /\ ret' = [NoRet EXCEPT !.op = "construct"]
    /\ UNCHANGED << qpos, sensor, finger, z_inits, has_prev, prev_gripper_closed,
                    fedPrev, fedCur, skew >>

\* iterations of the placement loop that complete before a name is missing
PlacedIters(n) == Min(n, NamedBlocks + 1)
\* the loop iterations that write the joint of block b
Writers(b, cnt) == { i \in 0..(cnt - 1) : ResetName(i) = b }
LastWriter(b, cnt) == CHOOSE i \in Writers(b, cnt) : \A j \in Writers(b, cnt) : j <= i
\* block_xy of iteration i
BlockXY(rnd, draws, i) == IF rnd THEN draws[i] ELSE <<50, -10 + 10 * i>>
\* joint positions after the placement loop ran cnt iterations from snapshot snap
PlacedQpos(snap, rnd, draws, cnt) ==
    [b \in Blocks |->
        IF Writers(b, cnt) = {} THEN snap[b]
        ELSE LET xy == BlockXY(rnd, draws, LastWriter(b, cnt))
             IN  Pos(xy[1], xy[2], BlockZ)]
\* a baseline list with one entry too many
ZInitsExtra(s, n) == [k \in 1..(n + 1) |-> s[ResetName(Min(k, n) - 1)].z]
\* self._z_inits as the second loop of reset builds it
ZInits(s, n) == [k \in 1..n |-> s[ResetName(k - 1)].z]

Reset(snap, draws) ==
    /\ constructed
    /\ sensor' = snap
    /\ finger' = 0
    /\ qpos' = PlacedQpos(snap, random_block_position, draws, PlacedIters(num_blocks))
    /\ IF num_blocks > PlacedIters(num_blocks)
       THEN \* self._data.joint(name) raises KeyError inside the placement loop
            /\ ret' = [NoRet EXCEPT !.op = "reset", !.raised = TRUE]
            /\ UNCHANGED << z_inits, has_prev, prev_gripper_closed, fedPrev, fedCur, skew >>
       ELSE /\ z_inits' = ZInits(snap, num_blocks)
            /\ has_prev' = TRUE
            /\ prev_gripper_closed' = ResetPrev(prev_gripper_closed)
            /\ ret' = [NoRet EXCEPT !.op = "reset"]
            /\ fedPrev' = "none"
            /\ fedCur' = "none"
            /\ skew' = 0
    /\ UNCHANGED << constructed, reward_type, num_blocks, random_block_position >>

\* the tracker's fields and the history after one call of _was_block_just_released
TrackerCalled(cur) ==
    /\ has_prev' = TRUE
    /\ prev_gripper_closed' = cur
    /\ fedPrev' = fedCur
    /\ fedCur' = FedName(cur)
    /\ skew' = Clamp(skew
                     + (IF JustReleased(has_prev, prev_gripper_closed, cur) THEN 1 ELSE 0)
                     - (IF fedCur = "closed" /\ ~cur THEN 1 ELSE 0),
                     -MaxSkew, MaxSkew)

TrackerUntouched == UNCHANGED << has_prev, prev_gripper_closed, fedPrev, fedCur, skew >>

StepRaised(calls, rel) ==
    [NoRet EXCEPT !.op = "step", !.raised = TRUE, !.jr_calls = calls, !.released = rel]

Step(f, s) ==
    /\ constructed
    \* apply_action
    /\ finger' = f
    /\ sensor' = s
    /\ qpos' = s
    /\ LET cur == IsGripperClosed(f)
           known == num_blocks <= NamedBlocks
       IN  IF reward_type = "dense" /\ (~known \/ z_inits = << >>)
           THEN \* block_positions or self._z_inits raises before the tracker is called
                /\ ret' = StepRaised(0, FALSE)
                /\ TrackerUntouched
           ELSE IF ~known
           THEN \* _is_success raises, after the tracker was called
                /\ ret' = StepRaised(1, JustReleased(has_prev, prev_gripper_closed, cur))
                /\ TrackerCalled(cur)
           ELSE LET raw == IsSuccess(s, num_blocks)
                    calls == JrCalls(reward_type, raw)
                    rel == IF calls = 0 THEN FALSE
                           ELSE JustReleased(has_prev, prev_gripper_closed, cur)
                    rew == IF reward_type = "dense"
                           THEN DenseReward(MaxLiftNum(s, z_inits, num_blocks),
                                            StackHalves(rel, raw))
                           ELSE SparseReward(rel, raw)
                    success == StepSuccess(reward_type, rew, raw)
                IN  /\ ret' = StepResult(rew, success, ExceededBounds(s[1]), calls, rel)
                    /\ IF calls = 0 THEN TrackerUntouched ELSE TrackerCalled(cur)
    /\ UNCHANGED << constructed, reward_type, num_blocks, random_block_position, z_inits >>

\* what np.random.uniform returns in the iterations of the placement loop; it is
\* not called when random placement is disabled
Draws ==
    IF random_block_position
    THEN [0..(PlacedIters(num_blocks) - 1) -> SampleXY]
    ELSE { [i \in 0..(PlacedIters(num_blocks) - 1) |-> <<0, 0>>] }

\* physics after apply_action: at most one block displaced
AfterAction ==
    { sensor } \cup
    UNION { { [sensor EXCEPT ![b] = p] : p \in MovePos(b) } : b \in Blocks }

\* the calls with the generators abstracted: what np.random.uniform returns is a
\* free choice, and the histories are not kept
ConstructCall ==
    /\ \E rt \in RewardTypes, n \in 1..MaxBlocks, rnd \in BOOLEAN : Construct(rt, n, rnd)
    /\ UNCHANGED aux
ResetCall ==
    /\ \E snap \in ResetSnaps, draws \in Draws : Reset(snap, draws)
    /\ UNCHANGED aux
StepCall ==
    /\ \E f \in FingerVals, s \in AfterAction : Step(f, s)
    /\ UNCHANGED aux

Next == ConstructCall \/ ResetCall \/ StepCall

Spec == Init /\ [][Next]_vars

\* ------------------------------------------- pure functions, applied
\* heights and positions the pure functions are evaluated on
ProbeHeights == {2, 4, 6, 8}
ProbeBaselines == {2, 3}
ProbeRaises == {1, 2}
ProbePos == { Pos(50, y, z) : y \in {0, 3}, z \in ProbeHeights }

\* max_lift_reward for n objects at heights hs over baselines zi, and again with
\* object i raised by d
ProbeLift(n, zi, hs, i, d) ==
    /\ probe.fn = "none"
    /\ LET s1 == [b \in 1..n |-> Pos(50, 0, hs[b])]
           s2 == [s1 EXCEPT ![i].z = hs[i] + d]
       IN  probe' = [fn |-> "lift", n |-> n, zi |-> zi, hs |-> hs, i |-> i, d |-> d,
                     out1 |-> MaxLiftNum(s1, zi, n), out2 |-> MaxLiftNum(s2, zi, n)]
    /\ UNCHANGED << constructed, reward_type, num_blocks, random_block_position, qpos,
                    sensor, finger, z_inits, has_prev, prev_gripper_closed, ret, fedPrev,
                    fedCur, skew, np_random, global_rng, placed_by_seed, hist >>

\* _is_success for n objects at positions ps with half-height h
ProbeStack(n, h, ps) ==
    /\ probe.fn = "none"
    /\ probe' = [fn |-> "stack", n |-> n, h |-> h, ps |-> ps, out |-> IsSuccessH(ps, n, h)]
    /\ UNCHANGED << constructed, reward_type, num_blocks, random_block_position, qpos,
                    sensor, finger, z_inits, has_prev, prev_gripper_closed, ret, fedPrev,
                    fedCur, skew, np_random, global_rng, placed_by_seed, hist >>

ProbeLiftCall ==
    \E n \in 1..MaxProbeBlocks :
        \E zi \in [1..n -> ProbeBaselines], hs \in [1..n -> ProbeHeights],
           i \in 1..n, d \in ProbeRaises : ProbeLift(n, zi, hs, i, d)
ProbeStackCall ==
    \E n \in 1..MaxProbeBlocks :
        \E h \in 1..MaxHalfHeight, ps \in [1..n -> ProbePos] : ProbeStack(n, h, ps)

NextPure == ProbeLiftCall \/ ProbeStackCall

SpecPure == Init /\ [][NextPure]_vars

\* ------------------------------------------- the generators, explicit
\* what np.random.uniform(*_SAMPLING_BOUNDS) returns at position g of the stream of
\* numpy's process-wide generator
GlobalSample(g) ==
    IF (g % RngPeriod) % 2 = 0 THEN <<SamplingMinX, SamplingMinY>> ELSE <<40, 0>>
\* the cnt consecutive draws of one placement loop
GlobalDraws(g, cnt) == [i \in 0..(cnt - 1) |-> GlobalSample(g + i)]
\* the planar positions the placement loop wrote
PlacedXY(q, cnt) ==
    [b \in { c \in Blocks : Writers(c, cnt) # {} } |-> <<q[b].x, q[b].y>>]

\* reset(seed=seed): super().reset(seed=seed) seeds the environment's own generator
\* self.np_random; the placement loop draws from numpy's process-wide generator
SeededReset(seed, snap) ==
    LET cnt == PlacedIters(num_blocks)
    IN  /\ Reset(snap, GlobalDraws(global_rng, cnt))
        /\ np_random' = seed
        /\ global_rng' = IF random_block_position
                         THEN (global_rng + cnt) % RngPeriod ELSE global_rng
        /\ placed_by_seed' =
               IF placed_by_seed[seed] = NoPlacement /\ ~ret'.raised
               THEN [placed_by_seed EXCEPT ![seed] = PlacedXY(qpos', cnt)]
               ELSE placed_by_seed
        /\ UNCHANGED << hist, probe >>

\* a draw from numpy's process-wide generator made elsewhere in the process
OtherDraw ==
    /\ global_rng' = (global_rng + 1) % RngPeriod
    /\ UNCHANGED << constructed, reward_type, num_blocks, random_block_position, qpos,
                    sensor, finger, z_inits, has_prev, prev_gripper_closed, ret, fedPrev,
                    fedCur, skew, np_random, placed_by_seed, hist, probe >>

SeedConstructCall ==
    /\ \E n \in 1..NamedBlocks, rnd \in BOOLEAN : Construct("sparse", n, rnd)
    /\ UNCHANGED aux
SeededResetCall == \E seed \in Seeds, snap \in ResetSnaps : SeededReset(seed, snap)

NextSeed == SeedConstructCall \/ SeededResetCall \/ OtherDraw

SpecSeed == Init /\ [][NextSeed]_vars

\* ------------------------------------------- the episodes, with history
\* the history after a step that returned r with the objects at s: the episode
\* runs from the reset up to and including the first step that returns terminated
HistAfterStep(h, r, s) ==
    IF z_inits = << >> \/ h.over \/ r.raised THEN h
    ELSE LET st == StackHalves(r.released, IsSuccess(s, num_blocks))
         IN  [carry |-> h.carry,
              heldSeen |-> (h.heldSeen \/ st = 1),
              bonusAfterHeld |-> (h.bonusAfterHeld \/ (h.heldSeen /\ st = 4)),
              over |-> r.terminated]

HistConstructCall ==
    /\ \E rt \in {"sparse", "dense"}, n \in 2..NamedBlocks : Construct(rt, n, FALSE)
    /\ UNCHANGED aux
\* reset, remembering the gripper state the last step of the previous episode saw
HistResetCall ==
    /\ \E snap \in ResetSnaps, draws \in Draws : Reset(snap, draws)
    /\ hist' = [NoHist EXCEPT !.carry = fedCur]
    /\ UNCHANGED << np_random, global_rng, placed_by_seed, probe >>
HistStepCall ==
    /\ \E f \in FingerVals, s \in AfterAction : Step(f, s)
    /\ hist' = HistAfterStep(hist, ret', sensor')
    /\ UNCHANGED << np_random, global_rng, placed_by_seed, probe >>

NextHist == HistConstructCall \/ HistResetCall \/ HistStepCall

SpecHist == Init /\ [][NextHist]_vars

\* ------------------------------------------------- claim vocabulary
\* the last call was a step that returned its 5-tuple
StepReturned == ret.op = "step" /\ ~ret.raised
\* the last call was a reset that returned
ResetReturned == ret.op = "reset" /\ ~ret.raised
\* a reset has returned on this instance: the step belongs to an episode
InEpisode == z_inits # << >>
\* a configuration error: a reward mode that is neither "sparse" nor "dense", or
\* more objects than the scene names
ConfigError ==
    \/ reward_type \notin {"sparse", "dense"}
    \/ num_blocks > NamedBlocks
\* the gripper was closed at the previous step of this episode and is open at this one
ReleaseObserved == fedPrev = "closed" /\ fedCur = "open"
\* some ordered pair of the N objects passes the stacking test on the current sensors
StackedNow == IsSuccess(sensor, num_blocks)
\* the reference object is outside [min - 0.05, max + 0.05] in x or in y
RefOutside ==
    \/ sensor[1].x < 25 \/ sensor[1].x > 55
    \/ sensor[1].y < -20 \/ sensor[1].y > 20

\* C1: in sparse mode, a step that sees the gripper closed at the previous step of
\* the episode and open now, with some ordered pair of objects stacked, returns
\* reward 1.0, terminated true and info.succeed true.
C1_SparseReleaseOnStack ==
    (StepReturned /\ reward_type = "sparse" /\ ReleaseObserved /\ StackedNow)
        => (ret.rew = 1000 /\ ret.terminated /\ ret.succeed)

C1_Witness ==
    /\ StepReturned /\ reward_type = "sparse" /\ ReleaseObserved /\ StackedNow
    /\ ret.rew = 1000 /\ ret.terminated /\ ret.succeed
    /\ ~RefOutside

\* C2: at every call of just_released the value returned is true exactly when the
\* gripper state fed at the previous call of the same episode was closed and the
\* one fed now is open; so over an episode the number of true returns equals the
\* number of closed->open transitions of the fed sequence (their difference is 0).
C2_ReleaseIffTransition ==
    /\ (ret.op = "step" /\ ret.jr_calls = 1) => (ret.released <=> ReleaseObserved)
    /\ skew = 0

C2_Witness ==
    /\ ret.op = "step" /\ ret.jr_calls = 1 /\ ret.released /\ ReleaseObserved

\* a first step of an episode with the gripper open returns no release
C2_WitnessFirstStep ==
    /\ ret.op = "step" /\ ret.jr_calls = 1 /\ fedPrev = "none" /\ fedCur = "open"
    /\ z_inits # << >> /\ ~ret.released

\* C3: in sparse mode a step at which the gripper is closed has reward 0.0, also
\* when the objects are stacked, and a non-zero reward occurs only on a step that
\* observes a closed->open transition.
C3_SparseZeroWhileClosed ==
    (StepReturned /\ reward_type = "sparse")
        => /\ (fedCur = "closed" => ret.rew = 0)
           /\ (ret.rew # 0 => ReleaseObserved)

C3_Witness ==
    /\ StepReturned /\ reward_type = "sparse"
    /\ fedPrev = "closed" /\ fedCur = "closed" /\ StackedNow /\ ret.rew = 0

\* C4 as stated: on every step, in both reward modes, info.succeed equals the raw
\* stacking predicate on the current positions.
C4_SucceedIsRawStacking ==
    (StepReturned /\ InEpisode) => (ret.succeed <=> StackedNow)

\* C4 amended: info.succeed equals the raw stacking predicate in every mode but
\* sparse; in sparse mode it equals reward == 1.0, that is stacked and a release
\* observed at this step.
C4_SucceedPerMode ==
    StepReturned =>
        (ret.succeed <=> IF reward_type = "sparse"
                         THEN ret.rew = 1000 /\ StackedNow /\ ReleaseObserved
                         ELSE StackedNow)

C4_Witness ==
    /\ StepReturned /\ InEpisode
    /\ reward_type = "sparse" /\ StackedNow /\ ~ReleaseObserved
    /\ ~ret.succeed

C4_WitnessDense ==
    /\ StepReturned /\ reward_type = "dense" /\ StackedNow /\ fedCur = "closed"
    /\ ret.succeed

\* C5: in sparse mode terminated is true exactly when reward == 1.0 or the
\* reference object is out of the extended bounds; stacked without an observed
\* release and inside the bounds gives terminated false.
C5_SparseTermination ==
    (StepReturned /\ reward_type = "sparse")
        => /\ (ret.terminated <=> (ret.rew = 1000 \/ RefOutside))
           /\ ((StackedNow /\ ~ReleaseObserved /\ ~RefOutside) => ~ret.terminated)

C5_Witness ==
    /\ StepReturned /\ reward_type = "sparse"
    /\ StackedNow /\ ~ReleaseObserved /\ ~RefOutside /\ ~ret.terminated

\* C6: in both reward modes terminated is true whenever the x or y sensor
\* coordinate of the reference object is below min - 0.05 or above max + 0.05,
\* also when success is false; a coordinate exactly on the extended boundary, or
\* another object outside, does not terminate a step without success.
C6_OutOfBoundsTerminates ==
    StepReturned
        => /\ (RefOutside => ret.terminated)
           /\ ((~RefOutside /\ ~ret.succeed) => ~ret.terminated)

C6_Witness ==
    /\ StepReturned /\ RefOutside /\ ~ret.succeed /\ ~StackedNow /\ ret.terminated

\* the reference object exactly on the boundary and another object beyond it
C6_WitnessBoundary ==
    /\ StepReturned /\ sensor[1].x = 55 /\ num_blocks >= 2 /\ sensor[2].x = 56
    /\ ~ret.terminated

\* C7: after reset with random placement disabled every object i in 0..N-1, the
\* object the success and reward checks read as object i, is at
\* (0.5, -0.1 + 0.1*i, h).
C7_EveryObjectPlaced ==
    (ResetReturned /\ ~random_block_position /\ num_blocks <= NamedBlocks)
        => \A i \in 0..(num_blocks - 1) :
               qpos[SensorName(i)] = Pos(50, -10 + 10 * i, BlockZ)

\* C8: after reset initial_heights[i] is the post-reset height of the object whose
\* current height the dense lift term subtracts it from.
C8_BaselineOfSameObject ==
    (ResetReturned /\ num_blocks <= NamedBlocks)
        => \A i \in 0..(num_blocks - 1) :
               z_inits[i + 1] = sensor[SensorName(i)].z

\* C9: under a configuration error no instance is produced and no reset or step
\* returns.
C9_ConfigErrorFailsConstruction ==
    /\ constructed => ~ConfigError
    /\ (StepReturned \/ ResetReturned) => ~ConfigError

\* C10: in dense mode the reward is 0.3 * lift_term + 0.7 * stack_term with
\* stack_term 2.0 on a release observed with the objects stacked, 0.5 when stacked
\* without a release, 0.0 otherwise; an object exactly 2h above its baseline with
\* the gripper closed and no stack gives 0.3; the reward never exceeds 1.7.
C10_DenseReward ==
    (StepReturned /\ reward_type = "dense")
        => LET liftMilli == (1000 * MaxLiftNum(sensor, z_inits, num_blocks)) \div (2 * BlockZ)
               stackMilli == IF ReleaseObserved /\ StackedNow THEN 2000
                             ELSE IF StackedNow THEN 500
                             ELSE 0
               lifted2h == \E i \in 1..num_blocks : sensor[i].z - z_inits[i] = 2 * BlockZ
           IN  /\ 10 * ret.rew = 3 * liftMilli + 7 * stackMilli
               /\ (lifted2h /\ fedCur = "closed" /\ ~StackedNow) => ret.rew = 300
               /\ ret.rew <= 1700

C10_Witness ==
    /\ StepReturned /\ reward_type = "dense" /\ num_blocks = 3
    /\ \E i \in 1..num_blocks : sensor[i].z - z_inits[i] = 2 * BlockZ
    /\ fedCur = "closed" /\ ~StackedNow /\ ret.rew = 300

C10_WitnessMax ==
    /\ StepReturned /\ reward_type = "dense" /\ ret.rew = 1700

C10_WitnessHeld ==
    /\ StepReturned /\ reward_type = "dense" /\ ret.rew = 650

\* C11: lift_term is the maximum over the objects, not the sum, of the lift
\* (z - initial_height) / (2h) clipped to [0, 1]; with a single lifted object it
\* does not decrease when the object is raised, is 0 at or below the baseline,
\* is 1.0 at baseline + 2h and does not change beyond baseline + 2h.
C11_LiftTermMaxClipped ==
    probe.fn = "lift" =>
        LET n == probe.n
            i == probe.i
            lift(k) == probe.hs[k] - probe.zi[k]
            clipped(k) == IF lift(k) < 0 THEN 0
                          ELSE IF lift(k) > 2 * BlockZ THEN 2 * BlockZ ELSE lift(k)
            single == \A k \in 1..n : k # i => lift(k) <= 0
        IN  /\ \A k \in 1..n : clipped(k) <= probe.out1
            /\ \E k \in 1..n : clipped(k) = probe.out1
            /\ single => /\ probe.out1 <= probe.out2
                         /\ (lift(i) <= 0 => probe.out1 = 0)
                         /\ (lift(i) = 2 * BlockZ => probe.out1 = 2 * BlockZ)
                         /\ (lift(i) >= 2 * BlockZ => probe.out2 = probe.out1)

\* two objects lifted, one of them beyond baseline + 2h and raised further
C11_Witness ==
    /\ probe.fn = "lift" /\ probe.n = 3
    /\ probe.hs[1] - probe.zi[1] = 2 /\ probe.hs[2] - probe.zi[2] > 2 * BlockZ
    /\ probe.i = 2
    /\ probe.out1 = 2 * BlockZ /\ probe.out2 = 2 * BlockZ

\* a single object raised from below 2h: the term grows
C11_WitnessGrows ==
    /\ probe.fn = "lift" /\ probe.n = 2 /\ probe.i = 1
    /\ probe.hs[2] <= probe.zi[2]
    /\ probe.out1 = 2 /\ probe.out2 = 4

\* some two of the n objects are at planar distance 0 with height difference 2h
ProbeExactStack ==
    \E a \in 1..probe.n : \E b \in 1..probe.n :
        /\ a # b
        /\ probe.ps[a].x = probe.ps[b].x /\ probe.ps[a].y = probe.ps[b].y
        /\ probe.ps[a].z - probe.ps[b].z = 2 * probe.h

\* C12 as stated: for every N >= 2 and every half-height h, two objects at planar
\* distance 0 and height difference exactly 2h make is_stacked true, whichever
\* index is the upper one and wherever the other objects are.
C12_ExactStackAnyH ==
    (probe.fn = "stack" /\ probe.n >= 2 /\ ProbeExactStack) => probe.out

\* C12 amended: the same for every half-height h with 2h above the minimum
\* vertical separation (0.03 m).
C12_ExactStackAboveMin ==
    (probe.fn = "stack" /\ probe.n >= 2 /\ ProbeExactStack /\ 2 * probe.h > 3)
        => probe.out

\* the upper object has the higher index, a third object lies elsewhere
C12_Witness ==
    /\ probe.fn = "stack" /\ probe.n = 3 /\ probe.h = 2
    /\ probe.ps[3].z - probe.ps[2].z = 4
    /\ probe.ps[3].y = probe.ps[2].y
    /\ probe.ps[1].y # probe.ps[2].y
    /\ probe.out

\* the upper object has the lower index
C12_WitnessUpperFirst ==
    /\ probe.fn = "stack" /\ probe.n = 2 /\ probe.h = 3
    /\ probe.ps[1].z - probe.ps[2].z = 6
    /\ probe.ps[1].y = probe.ps[2].y
    /\ probe.out

\* C13: is_stacked is false when every ordered pair fails the vertical-separation
\* test (height difference above 0.03 m), so a pair at identical positions never
\* counts, and with N = 1 it is false for every position.
C13_NoStackWithoutSeparation ==
    probe.fn = "stack" =>
        /\ probe.out =>
               \E a \in 1..probe.n : \E b \in 1..probe.n :
                   /\ a # b
                   /\ probe.ps[a] # probe.ps[b]
                   /\ probe.ps[a].z - probe.ps[b].z > 3
        /\ probe.n = 1 => ~probe.out

\* two objects at identical positions, h = 0.02: not stacked
C13_Witness ==
    /\ probe.fn = "stack" /\ probe.n = 2 /\ probe.h = 2
    /\ probe.ps[1] = probe.ps[2]
    /\ ~probe.out

C13_WitnessSingle ==
    /\ probe.fn = "stack" /\ probe.n = 1 /\ ~probe.out

\* C14: with random placement enabled, reset(seed) re-seeds the randomness the
\* placement uses: a reset given a seed places the objects where the first reset
\* given that seed placed them, whatever was drawn elsewhere in between.
C14_SameSeedSamePlacement ==
    (/\ ResetReturned
     /\ random_block_position
     /\ np_random \in Seeds
     /\ placed_by_seed[np_random] # NoPlacement)
        => PlacedXY(qpos, PlacedIters(num_blocks)) = placed_by_seed[np_random]

\* C15: every step that returns reports truncated false, also when the episode
\* ends because the reference object left the workspace.
C15_NeverTruncated == StepReturned => ~ret.truncated

\* a step that ended the episode only because the reference object is outside
C15_Witness ==
    /\ StepReturned /\ InEpisode /\ RefOutside
    /\ ret.terminated /\ ~ret.succeed /\ ~ret.truncated

\* C16: on every step that returns, in both reward modes and whichever branch of
\* the reward is taken, just_released is evaluated exactly once, it compares the
\* value stored before the call with the current one (read before overwrite),
\* and afterwards prev_gripper_closed equals the gripper state just observed.
C16_TrackerOncePerStep ==
    StepReturned =>
        /\ ret.jr_calls = 1
        /\ has_prev
        /\ prev_gripper_closed = IsGripperClosed(finger)
        /\ fedCur = FedName(IsGripperClosed(finger))
        /\ ret.released <=> (fedPrev = "closed" /\ ~IsGripperClosed(finger))

\* dense mode, nothing stacked, gripper stays closed: the tracker still ran
C16_Witness ==
    /\ StepReturned /\ InEpisode /\ reward_type = "dense" /\ ~StackedNow
    /\ fedPrev = "closed" /\ IsGripperClosed(finger)
    /\ ret.jr_calls = 1 /\ prev_gripper_closed

\* sparse mode, nothing stacked, the gripper opens
C16_WitnessSparse ==
    /\ StepReturned /\ InEpisode /\ reward_type = "sparse" /\ ~StackedNow
    /\ ret.released /\ ~prev_gripper_closed /\ ret.jr_calls = 1

\* C17: initial_heights is written only by a reset that returns, which leaves
\* exactly N entries; a step, or any other call, leaves it unchanged.
C17_BaselinesOnlyByReset ==
    [][ /\ (ret'.op = "step" => z_inits' = z_inits)
        /\ (z_inits' # z_inits =>
                /\ ret'.op = "reset" /\ ~ret'.raised
                /\ Len(z_inits') = num_blocks) ]_vars

\* a step of an episode moved an object off its baseline; the list is as reset left it
C17_Witness ==
    /\ StepReturned /\ InEpisode
    /\ Len(z_inits) = num_blocks
    /\ \E k \in 1..num_blocks : sensor[k].z # z_inits[k]

\* what the specified tracker returns: unset after reset, initialised to the first
\* sample (no release), afterwards closed-then-open
SpecifiedRelease ==
    IF fedPrev = "none" THEN FALSE ELSE fedPrev = "closed" /\ fedCur = "open"

\* C18: the implemented reset, which sets prev_gripper_closed to False, behaves
\* like the specified tracker that resets it to unset and initialises it to the
\* first sample: at each step of an episode both return the same just_released
\* value and hold the same stored state afterwards, and the first step of an
\* episode never reports a release, also when the previous episode ended with the
\* gripper closed and the new one starts with it open.
C18_ResetToFalseLikeUnset ==
    (StepReturned /\ InEpisode) =>
        /\ ret.released = SpecifiedRelease
        /\ prev_gripper_closed = (fedCur = "closed")
        /\ fedPrev = "none" => ~ret.released

\* previous episode ended closed, first step of the new one sees the gripper open
C18_Witness ==
    /\ StepReturned /\ InEpisode
    /\ hist.carry = "closed" /\ fedPrev = "none" /\ fedCur = "open"
    /\ ~ret.released

\* a later step of such an episode reports a release
C18_WitnessLater ==
    /\ StepReturned /\ InEpisode /\ hist.carry = "closed" /\ ret.released

\* C19: in dense mode, within one episode (from the reset up to and including the
\* first step that returns terminated), a step with stack_term 0.5 is never
\* followed by a step with stack_term 2.0: the first step on which the objects are
\* stacked already returns terminated.
C19_NoBonusAfterHeldStack ==
    reward_type = "dense" =>
        /\ ~hist.bonusAfterHeld
        /\ hist.heldSeen => hist.over
        /\ (StepReturned /\ InEpisode /\ StackedNow) => ret.terminated

\* a dense step saw the stack while nothing was released: 0.5, and the episode ended
C19_Witness ==
    /\ reward_type = "dense" /\ StepReturned /\ InEpisode
    /\ StackedNow /\ ~ret.released /\ ~RefOutside
    /\ hist.heldSeen /\ hist.over /\ ret.terminated

\* the bonus 2.0 on the step that first detects the stack
C19_WitnessBonus ==
    /\ reward_type = "dense" /\ StepReturned /\ InEpisode
    /\ StackedNow /\ ret.released
    /\ ~hist.heldSeen /\ hist.over

\* C20: on every step that returns, in every reward mode, succeed implies
\* terminated, and terminated without succeed occurs only when the reference object
\* is outside the extended bounds.
C20_TerminationCauses ==
    StepReturned =>
        /\ ret.succeed => ret.terminated
        /\ (ret.terminated /\ ~ret.succeed) => RefOutside

\* success and leaving the workspace on the same step
C20_Witness ==
    /\ StepReturned /\ InEpisode /\ ret.succeed /\ ret.terminated /\ RefOutside

\* dense mode, stacked inside the workspace: terminated by success alone
C20_WitnessInside ==
    /\ StepReturned /\ InEpisode /\ reward_type = "dense"
    /\ ret.succeed /\ ret.terminated /\ ~RefOutside

====
